---- MODULE Spec2Model ----
(***************************************************************************)
(* Model of locate-resources.py: the headless pipeline (plan, then the     *)
(* bounded-concurrency verified transfer with retry and backoff).          *)
(*                                                                         *)
(* The asyncio event loop runs one coroutine at a time and switches only   *)
(* at an await.  Each action below is therefore one maximal block of code  *)
(* between two awaits of a dl() coroutine:                                 *)
(*   Acquire  semaphore acquired .. first `session.get` awaited            *)
(*   Respond  the response (or its failure) arrives .. return / sleep      *)
(*   Wake     `asyncio.sleep` ends .. next `session.get` awaited / return  *)
(***************************************************************************)
EXTENDS Integers, Sequences, FiniteSets, TLC

VARIABLES
    tasks,        \* headless: `tasks`, the resolved (url, path, sha) list
    dry_run,      \* args.dry_run
    fs,           \* the local files: path -> content, or Absent
    phase,        \* position of headless(): "plan", "transfer", "done", "aborted"
    to_download,  \* headless: `to_download`
    pc,           \* position of each dl() coroutine
    attempt,      \* download_file_async_with_retry: `attempt`
    last_exc,     \* download_file_async_with_retry: `last_exc`
    sem,          \* asyncio.Semaphore: its _value
    outcome,      \* what dl() printed for the task: Downloaded / OK / Error
    reason,       \* the exception dl() printed with Error
    reports,      \* number of lines dl() printed for the task
    gets,         \* number of session.get calls made for the task
    matched,      \* when dl() printed Downloaded, sha1 of the file equalled the task's sha
    mismatches,   \* number of attempts of the task that ended in a SHA1 mismatch
    raised,       \* an exception left dl() and reached asyncio.gather
    runs,         \* number of times headless() was started
    prev,         \* the previous headless() run: tasks it planned, and whether
                  \* each of them printed Downloaded or OK
    \* parse_rules
    rules,        \* parse_rules: `rules`
    rpc,          \* position in parse_rules: "idle", "call", "loop", "returned"
    ridx,         \* number of rules the for loop has processed
    allowed_os,   \* parse_rules: `allowed_os`, and the set it returns
    \* get_libraries
    libs,         \* get_libraries: `libs`
    lpc,          \* position in get_libraries: "idle", "loop", "returned"
    lidx,         \* number of entries the for loop has processed
    libraries,    \* get_libraries: `libraries`
    \* fetch_json
    cache,        \* the text of each cache file, or Absent
    filename,     \* fetch_json: `filename`
    fstart,       \* what `filename` held when the current call started
    fpc,          \* position in fetch_json: "idle", "load", "try", "returned", "raised"
    fattempt,     \* fetch_json: `attempt`
    fgets,        \* requests.get calls of the current call
    fwrote,       \* whether the current call wrote `filename`
    fresult,      \* the value the call returned, or NoJson
    fcalls,       \* calls of fetch_json started so far
    \* headless, task collection
    installed_versions,  \* headless: the names of `installed_versions`
    version_json,        \* the document of each installed version
    vpc,                 \* position in the collection: "idle", "collect", "collected", "raised"
    vidx,                \* versions the for loop has processed
    collected            \* headless: `tasks` while it is collected

engineVars == <<tasks, dry_run, fs, phase, to_download, pc, attempt, last_exc, sem,
                outcome, reason, reports, gets, matched, mismatches, raised, runs, prev>>

rulesVars == <<rules, rpc, ridx, allowed_os>>

libVars == <<libs, lpc, lidx, libraries>>

fetchVars == <<cache, filename, fstart, fpc, fattempt, fgets, fwrote, fresult, fcalls>>

collectVars == <<installed_versions, version_json, vpc, vidx, collected>>

vars == <<engineVars, rulesVars, libVars, fetchVars, collectVars>>

\* the variables the transfer engine leaves alone
otherVars == <<rulesVars, libVars, fetchVars, collectVars>>

----------------------------------------------------------------------------
(* Bounds of the model *)

\* longest resolved task list
MaxTasks == 3

\* number of times the pipeline is run in SpecTwice
MaxRuns == 2

\* the value the semaphore is created with: 8 in headless (line 382), 10 in
\* the TUI (line 293); kept below MaxTasks so that tasks do wait at the gate
MaxConcurrency == 2

(* Program constants *)

\* retries=3, the default of download_file_async_with_retry
Retries == 3

----------------------------------------------------------------------------
(* The environment: files, remote contents, digests *)

Absent == "absent"
NoSha == "none"

Contents == {"c1", "c2"}
Urls == {"u1", "u2"}
Paths == {"p1", "p2"}

\* hashlib.sha1 of a file's content: injective on Contents, never the content itself
compute_sha1(content) ==
    CASE content = "c1" -> "d1"
      [] content = "c2" -> "d2"

\* the body the server holds for a url; it does not change during a check
Remote(url) ==
    CASE url = "u1" -> "c1"
      [] url = "u2" -> "c2"

\* the entries a resolved task list is drawn from:
\*   a library whose declared sha1 matches the served body,
\*   another artifact declared at the same local path with another sha1,
\*   an entry whose declared sha1 differs from the served body,
\*   an entry with no sha1
TaskUniverse ==
    { [url |-> "u1", path |-> "p1", sha |-> "d1"],
      [url |-> "u2", path |-> "p1", sha |-> "d2"],
      [url |-> "u1", path |-> "p2", sha |-> "d2"],
      [url |-> "u2", path |-> "p2", sha |-> NoSha] }

TaskLists == UNION { [1..n -> TaskUniverse] : n \in 1..MaxTasks }

Slots == 1..MaxTasks

Active == { i \in Slots : i <= Len(to_download) }

----------------------------------------------------------------------------
(* Pure helpers *)

\* os.path.exists(path)
Exists(f, path) == f[path] # Absent

\* mutant: a file with no sha1 to check it against is fetched again
PlanReason_NoShaRefetched(f, t) ==
    IF ~Exists(f, t.path) THEN "missing"
    ELSE IF t.sha = NoSha \/ compute_sha1(f[t.path]) # t.sha THEN "corrupt"
    ELSE "skip"

\* headless, the filter loop: the reason a task is kept, or "skip"
PlanReason(f, t) ==
    IF ~Exists(f, t.path) THEN "missing"
    ELSE IF t.sha # NoSha /\ compute_sha1(f[t.path]) # t.sha THEN "corrupt"
    ELSE "skip"

RECURSIVE Plan(_, _)
Plan(f, ts) ==
    IF ts = <<>> THEN <<>>
    ELSE LET t == Head(ts)
             r == PlanReason(f, t)
             rest == Plan(f, Tail(ts))
         IN  IF r = "skip" THEN rest
             ELSE <<[url |-> t.url, path |-> t.path, sha |-> t.sha, reason |-> r]>> \o rest

\* mutant: without the else branch a file with no sha1 is fetched again
AlreadyHave_ShaOnly(f, t) ==
    Exists(f, t.path) /\ t.sha # NoSha /\ compute_sha1(f[t.path]) = t.sha

\* download_file_async, lines 102-107: the file is there and needs no download
AlreadyHave(f, t) ==
    /\ Exists(f, t.path)
    /\ (t.sha # NoSha => compute_sha1(f[t.path]) = t.sha)

\* download_file_async, lines 116-119: the check after the write
PostWriteOk(f, t) ==
    t.sha # NoSha => compute_sha1(f[t.path]) = t.sha

\* download_file_async_with_retry, lines 133-136: the wrapper's own check
WrapperCheckOk(f, t) ==
    t.sha # NoSha => compute_sha1(f[t.path]) = t.sha

\* mutant: the body is streamed to the target while it arrives
FileAfterClientError_Streamed(f, t) == [f EXCEPT ![t.path] = Remote(t.url)]

\* download_file_async, lines 111-115: `open(path, 'wb')` comes after
\* raise_for_status and after `await response.read()` has returned, so an
\* attempt that fails on the request or on the status has not opened the file
FileAfterClientError(f, t) == f

\* mutant: the written file is not checked
AttemptVerified_Skipped(f, t) == TRUE

\* an attempt that wrote the file returns True only past both checks
AttemptVerified(f, t) == PostWriteOk(f, t) /\ WrapperCheckOk(f, t)

\* mutant: the slot is not given back
Release_Leak(s) == s

\* leaving `async with semaphore`: Semaphore.release
Release(s) == s + 1

\* mutant: the gate lets every task in
CanAcquire_Unguarded == TRUE

\* mutant: the gate stays shut while any task sleeps in backoff
CanAcquire_NoSleepers == sem > 0 /\ \A j \in DOMAIN pc : pc[j] # "sleep"

\* asyncio.Semaphore.acquire returns at once iff the value is positive
CanAcquire == sem > 0

\* mutant: one attempt too many
MayRetry_OneMore(n) == n <= Retries

\* download_file_async_with_retry, line 141: sleep and try again, or give up
MayRetry(n) == n < Retries

\* line 144, a bare `raise`: the exception being handled, not an earlier one
Reraised(e, earlier) == e

\* mutant: dl() has no try/except
DlCatches_Never(e) == FALSE

\* headless.dl, lines 385-389: every Exception of the wrapper is caught
DlCatches(e) == TRUE

----------------------------------------------------------------------------
(* parse_rules, lines 44-63 *)

\* longest rule list
MaxRules == 3

\* strings that the code takes apart are sequences of characters
Osx == <<"o", "s", "x">>
Linux == <<"l", "i", "n", "u", "x">>
Windows == <<"w", "i", "n", "d", "o", "w", "s">>
Freebsd == <<"f", "r", "e", "e", "b", "s", "d">>

\* ALL_OS, line 21
ALL_OS == {Osx, Linux, Windows}

\* the names a rule's os predicate may carry: those of ALL_OS and another one
OsNames == ALL_OS \cup {Freebsd}

\* a rule: its action and, when has_os, rule['os'] with its name and whether
\* it has a 'version' key
RuleUniverse ==
    [action : {"allow", "disallow"}, has_os : {FALSE}, name : {<<>>}, version : {FALSE}]
    \cup [action : {"allow", "disallow"}, has_os : {TRUE}, name : OsNames, version : BOOLEAN]

RuleLists == UNION { [1..n -> RuleUniverse] : n \in 0..MaxRules }

\* mutant: the version exemption is missing
RuleChange_NoExemption(rule) ==
    IF rule.has_os THEN {rule.name} ELSE ALL_OS

\* lines 52-57: `change`
RuleChange(rule) ==
    IF rule.has_os
    THEN IF ~(rule.action = "disallow" /\ rule.version) THEN {rule.name} ELSE {}
    ELSE ALL_OS

\* mutant: every rule is applied as an allow
ApplyRule_AlwaysUnion(acc, rule) == acc \cup RuleChange(rule)

\* lines 59-62: union for allow, difference for anything else
ApplyRule(acc, rule) ==
    IF rule.action = "allow" THEN acc \cup RuleChange(rule) ELSE acc \ RuleChange(rule)

RECURSIVE FoldRules(_, _)
FoldRules(acc, rs) ==
    IF rs = <<>> THEN acc ELSE FoldRules(ApplyRule(acc, Head(rs)), Tail(rs))

\* parse_rules as a function of its argument
parse_rules(rs) == IF rs = <<>> THEN ALL_OS ELSE FoldRules({}, rs)

RulesIdle ==
    /\ rules = <<>>
    /\ rpc = "idle"
    /\ ridx = 0
    /\ allowed_os = {}

\* lines 45-48: the empty list returns at once
ParseRules_enter ==
    /\ rpc = "call"
    /\ IF rules = <<>>
       THEN /\ allowed_os' = ALL_OS
            /\ rpc' = "returned"
       ELSE /\ allowed_os' = {}
            /\ rpc' = "loop"
    /\ UNCHANGED <<rules, ridx>>

\* lines 50-62: one turn of the for loop
ParseRules_rule ==
    /\ rpc = "loop"
    /\ ridx < Len(rules)
    /\ allowed_os' = ApplyRule(allowed_os, rules[ridx + 1])
    /\ ridx' = ridx + 1
    /\ UNCHANGED <<rules, rpc>>

\* line 63
ParseRules_return ==
    /\ rpc = "loop"
    /\ ridx = Len(rules)
    /\ rpc' = "returned"
    /\ UNCHANGED <<rules, ridx, allowed_os>>

----------------------------------------------------------------------------
(* get_libraries, lines 65-78 *)

\* longest rule list of a library entry
MaxLibRules == 2

\* the 8 of `classifier[8:]`, line 75
PrefixLen == 8

NativesPrefix == <<"n", "a", "t", "i", "v", "e", "s", "-">>
Sources == <<"s", "o", "u", "r", "c", "e", "s">>

\* the classifier names of an entry, in this order when present
ClassifierOrder ==
    <<NativesPrefix \o Linux, NativesPrefix \o Windows, NativesPrefix \o Freebsd, Sources>>

ClassifierLists ==
    { SelectSeq(ClassifierOrder, LAMBDA c : c \in S) :
        S \in SUBSET { ClassifierOrder[k] : k \in 1..Len(ClassifierOrder) } }

\* a library entry: lib.get('rules', []), 'downloads' in lib, 'artifact' in
\* lib['downloads'], and the keys of lib['downloads']['classifiers']
LibEntries ==
    [rules : UNION { [1..n -> RuleUniverse] : n \in 0..MaxLibRules },
     has_downloads : BOOLEAN, has_artifact : BOOLEAN, classifiers : ClassifierLists]

AllowLinux == [action |-> "allow", has_os |-> TRUE, name |-> Linux, version |-> FALSE]

\* the entry of the scenario: rules [allow os linux], an artifact and the
\* classifiers natives-linux and natives-windows
ScenarioLib ==
    [rules |-> <<AllowLinux>>, has_downloads |-> TRUE, has_artifact |-> TRUE,
     classifiers |-> <<NativesPrefix \o Linux, NativesPrefix \o Windows>>]

\* entries that lists of two are made of
PairLibs ==
    { ScenarioLib,
      [rules |-> <<>>, has_downloads |-> TRUE, has_artifact |-> FALSE,
       classifiers |-> <<NativesPrefix \o Windows, Sources>>],
      [rules |-> <<AllowLinux>>, has_downloads |-> FALSE, has_artifact |-> FALSE,
       classifiers |-> <<>>] }

LibLists == { <<e>> : e \in LibEntries } \cup [1..2 -> PairLibs]

\* classifier.startswith('natives-')
StartsWithNatives(c) ==
    Len(c) >= Len(NativesPrefix) /\ SubSeq(c, 1, Len(NativesPrefix)) = NativesPrefix

\* mutant: one character less is cut off
OsNameOf_OneShort(c) == SubSeq(c, PrefixLen, Len(c))

\* classifier[8:]
OsNameOf(c) == SubSeq(c, PrefixLen + 1, Len(c))

\* lines 72-77: the classifiers of entry k that are appended, in order
RECURSIVE EmitClassifiers(_, _, _)
EmitClassifiers(k, cs, allowed) ==
    IF cs = <<>> THEN <<>>
    ELSE LET c == Head(cs)
             rest == EmitClassifiers(k, Tail(cs), allowed)
         IN  IF StartsWithNatives(c) /\ OsNameOf(c) \in allowed
             THEN <<[lib |-> k, kind |-> "classifier", name |-> c]>> \o rest
             ELSE rest

\* lines 68-77: what one turn of the loop appends for entry k
EmitLib(k, lib) ==
    LET allowed == parse_rules(lib.rules)
    IN  IF ~lib.has_downloads THEN <<>>
        ELSE (IF lib.has_artifact
              THEN <<[lib |-> k, kind |-> "artifact", name |-> <<>>]>>
              ELSE <<>>)
             \o EmitClassifiers(k, lib.classifiers, allowed)

LibsIdle ==
    /\ libs = <<>>
    /\ lpc = "idle"
    /\ lidx = 0
    /\ libraries = <<>>

\* lines 67-77: one turn of the for loop
GetLibraries_lib ==
    /\ lpc = "loop"
    /\ lidx < Len(libs)
    /\ libraries' = libraries \o EmitLib(lidx + 1, libs[lidx + 1])
    /\ lidx' = lidx + 1
    /\ UNCHANGED <<libs, lpc>>

\* line 78
GetLibraries_return ==
    /\ lpc = "loop"
    /\ lidx = Len(libs)
    /\ lpc' = "returned"
    /\ UNCHANGED <<libs, lidx, libraries>>

----------------------------------------------------------------------------
(* fetch_json, lines 23-42 *)

\* calls of fetch_json
MaxFetches == 3

\* the cache files: os.path.join(cache_dir, 'assets', f"{asset_id}.json"), line 81
CacheFiles == {"assets/1.json", "assets/2.json"}

\* range(3), line 28
FetchAttempts == 3

\* the 2 of `attempt < 2`, line 39
LastFetchAttempt == 2

NoJson == "NoJson"

\* texts that json parses, and one that it does not
DocTexts == {"{a}", "{b}"}
Garbage == "<html>"
Texts == DocTexts \cup {Garbage}

\* json.load / response.json(): the value of a text, NoJson when the
\* parser raises
ParseJson(text) ==
    CASE text = "{a}" -> "dict_a"
      [] text = "{b}" -> "dict_b"
      [] OTHER -> NoJson

\* what one requests.get can bring: requests.get raises, raise_for_status
\* raises, or a body arrives with a good status
Responses ==
    [kind : {"network_error", "bad_status"}, body : {Garbage}]
    \cup [kind : {"ok"}, body : Texts]

\* mutant: a file that does not parse counts as a miss
CacheHit_Parseable(c) == c \in DocTexts

\* os.path.exists(filename), line 24
CacheHit(c) == c # Absent

\* lines 35-36: the file after a response with a good status
CacheAfterOk(c, body) == body

FetchIdle ==
    /\ cache = [f \in CacheFiles |-> Absent]
    /\ filename = "assets/1.json"
    /\ fstart = Absent
    /\ fpc = "idle"
    /\ fattempt = 0
    /\ fgets = 0
    /\ fwrote = FALSE
    /\ fresult = NoJson
    /\ fcalls = 0

\* lines 23-24, 28: a call starts and tests the file
FetchJson_enter ==
    /\ fpc \in {"idle", "returned", "raised"}
    /\ fcalls < MaxFetches
    /\ fcalls' = fcalls + 1
    /\ \E f \in CacheFiles :
          /\ filename' = f
          /\ fstart' = cache[f]
          /\ fpc' = IF CacheHit(cache[f]) THEN "load" ELSE "try"
    /\ fattempt' = 0
    /\ fgets' = 0
    /\ fwrote' = FALSE
    /\ fresult' = NoJson
    /\ UNCHANGED cache

\* lines 25-26: json.load of the file; its exception leaves the function
FetchJson_load ==
    /\ fpc = "load"
    /\ fresult' = ParseJson(cache[filename])
    /\ fpc' = IF ParseJson(cache[filename]) # NoJson THEN "returned" ELSE "raised"
    /\ UNCHANGED <<cache, filename, fstart, fattempt, fgets, fwrote, fcalls>>

\* lines 28-42: one turn of the for loop
FetchJson_attempt ==
    /\ fpc = "try"
    /\ fattempt < FetchAttempts
    /\ \E resp \in Responses :
          /\ fgets' = fgets + 1
          /\ IF resp.kind = "ok"
             THEN /\ cache' = [cache EXCEPT ![filename] = CacheAfterOk(@, resp.body)]
                  /\ fwrote' = TRUE
             ELSE UNCHANGED <<cache, fwrote>>
          /\ IF resp.kind = "ok" /\ ParseJson(resp.body) # NoJson
             THEN /\ fresult' = ParseJson(resp.body)
                  /\ fpc' = "returned"
                  /\ UNCHANGED fattempt
             ELSE /\ fresult' = NoJson
                  /\ IF fattempt < LastFetchAttempt
                     THEN /\ fattempt' = fattempt + 1
                          /\ UNCHANGED fpc
                     ELSE /\ fpc' = "raised"
                          /\ UNCHANGED fattempt
    /\ UNCHANGED <<filename, fstart, fcalls>>

----------------------------------------------------------------------------
(* get_assets, lines 80-92, and the task collection of headless, lines 329-355 *)

\* installed versions
MaxVersions == 2

VersionNames == <<"v1", "v2", "v3">>

\* f"{item}.jar" under versions/<item>, lines 322-323
JarFile(v) ==
    CASE v = "v1" -> <<"versions", "v1", "v1.jar">>
      [] v = "v2" -> <<"versions", "v2", "v2.jar">>
      [] OTHER -> <<"versions", "v3", "v3.jar">>

\* c['url'] of a version: host and rest
ClientUrl(v) ==
    CASE v = "v1" -> <<"https://piston-data.mojang.com", "v1/client.jar">>
      [] v = "v2" -> <<"https://piston-data.mojang.com", "v2/client.jar">>
      [] OTHER -> <<"https://piston-data.mojang.com", "v3/client.jar">>

ClientSha(v) == CASE v = "v1" -> "ca1" [] v = "v2" -> "ca2" [] OTHER -> "ca3"

LibrariesHost == "https://libraries.minecraft.net"
NoRel == "NoRel"

\* rel.split('/'), line 345
SplitRel(rel) ==
    CASE rel = "com/a/a.jar" -> <<"com", "a", "a.jar">>
      [] rel = "com/a/a-natives-linux.jar" -> <<"com", "a", "a-natives-linux.jar">>
      [] rel = "org/b/b.jar" -> <<"org", "b", "b.jar">>
      [] OTHER -> <<rel>>

\* lines 344-348: the local path of a library info
LibLocalPath(info) ==
    IF info.path # NoRel
    THEN <<"libraries">> \o SplitRel(info.path)
    ELSE IF info.url[1] = LibrariesHost
         THEN <<"libraries", info.url[2]>>
         ELSE <<"libraries">> \o info.url

\* library entries of version documents: those of get_libraries with the
\* info of the artifact and of each classifier
LibA ==
    [rules |-> <<>>, has_downloads |-> TRUE, has_artifact |-> TRUE,
     classifiers |-> <<NativesPrefix \o Linux>>,
     artifact |-> [url |-> <<LibrariesHost, "com/a/a.jar">>, path |-> "com/a/a.jar", sha1 |-> "aa1"],
     natives |-> [url |-> <<LibrariesHost, "com/a/a-natives-linux.jar">>,
                  path |-> "com/a/a-natives-linux.jar", sha1 |-> "aa2"]]

LibB ==
    [rules |-> <<AllowLinux>>, has_downloads |-> TRUE, has_artifact |-> TRUE,
     classifiers |-> <<>>,
     artifact |-> [url |-> <<LibrariesHost, "org/b/b.jar">>, path |-> "org/b/b.jar", sha1 |-> "bb1"],
     natives |-> [url |-> <<LibrariesHost, "org/b/b.jar">>, path |-> NoRel, sha1 |-> NoSha]]

\* an entry whose artifact has no 'path' and no 'sha1'
LibC ==
    [rules |-> <<>>, has_downloads |-> TRUE, has_artifact |-> TRUE,
     classifiers |-> <<>>,
     artifact |-> [url |-> <<LibrariesHost, "net/c/c.jar">>, path |-> NoRel, sha1 |-> NoSha],
     natives |-> [url |-> <<LibrariesHost, "net/c/c.jar">>, path |-> NoRel, sha1 |-> NoSha]]

LibraryLists == {<<>>, <<LibA>>, <<LibB>>, <<LibA, LibB>>, <<LibC>>}

\* lines 69-77: the infos get_libraries returns for a list of entries
RECURSIVE get_libraries(_)
get_libraries(ls) ==
    IF ls = <<>> THEN <<>>
    ELSE LET lib == Head(ls)
             item(e) == IF e.kind = "artifact" THEN lib.artifact ELSE lib.natives
             emitted == EmitLib(1, lib)
         IN  [j \in 1..Len(emitted) |-> item(emitted[j])] \o get_libraries(Tail(ls))

NoIndex == "NoIndex"
AssetIds == {"1", "2", "3", "4"}

\* what fetch_json gives for the asset index of an id: it raises, or the
\* values of index['objects'] in the document's order
AssetIndex(id) ==
    CASE id = "1" -> [raises |-> FALSE,
                      objects |-> <<[name |-> "icons/icon.png", hash |-> "ab1"],
                                    [name |-> "icons/copy.png", hash |-> "ab1"]>>]
      [] id = "2" -> [raises |-> FALSE,
                      objects |-> <<[name |-> "icons/icon.png", hash |-> "ab2"],
                                    [name |-> "lang/en.json", hash |-> "cd1"]>>]
      [] id = "3" -> [raises |-> TRUE, objects |-> <<>>]
      [] OTHER -> [raises |-> FALSE, objects |-> <<>>]

\* hash[:2], lines 87-88
HashPrefix(hash) ==
    CASE hash = "ab1" -> "ab"
      [] hash = "ab2" -> "ab"
      [] OTHER -> "cd"

\* ASSET_DOWNLOAD % (hash[:2], hash), lines 19 and 87
AssetUrl(hash) == <<"https://resources.download.minecraft.net", HashPrefix(hash), hash>>

\* line 88
AssetPath(hash) == <<"assets", "objects", HashPrefix(hash), hash>>

\* lines 85-91: one task per value of index['objects']
get_assets(id) ==
    LET objs == AssetIndex(id).objects
    IN  [j \in 1..Len(objs) |->
            [url |-> AssetUrl(objs[j].hash), path |-> AssetPath(objs[j].hash),
             sha1 |-> objs[j].hash]]

\* a version document: whether json.load succeeds, 'client' in downloads,
\* 'libraries' and the id of 'assetIndex'
VersionDocs ==
    [loads : BOOLEAN, client : BOOLEAN, libraries : LibraryLists,
     assetIndex : AssetIds \cup {NoIndex}]

\* os.listdir gives each name once
VersionLists == { SubSeq(VersionNames, 1, n) : n \in 1..MaxVersions }

\* lines 337-349: the tasks of the client jar and of the libraries
JarAndLibraryTasks(v, doc) ==
    LET libs_ == get_libraries(doc.libraries)
    IN  (IF doc.client
         THEN <<[url |-> ClientUrl(v), path |-> JarFile(v), sha1 |-> ClientSha(v)]>>
         ELSE <<>>)
        \o [j \in 1..Len(libs_) |->
               [url |-> libs_[j].url, path |-> LibLocalPath(libs_[j]), sha1 |-> libs_[j].sha1]]

CollectIdle ==
    /\ installed_versions = <<>>
    /\ version_json = <<>>
    /\ vpc = "idle"
    /\ vidx = 0
    /\ collected = <<>>

\* lines 330-355: one turn of the for loop over installed_versions
Collect_version ==
    /\ vpc = "collect"
    /\ vidx < Len(installed_versions)
    /\ LET v == installed_versions[vidx + 1]
           doc == version_json[vidx + 1]
       IN  IF ~doc.loads
           THEN /\ vidx' = vidx + 1
                /\ UNCHANGED <<vpc, collected>>
           ELSE IF doc.assetIndex # NoIndex /\ AssetIndex(doc.assetIndex).raises
                THEN /\ collected' = collected \o JarAndLibraryTasks(v, doc)
                     /\ vpc' = "raised"
                     /\ UNCHANGED vidx
                ELSE /\ collected' = collected \o JarAndLibraryTasks(v, doc)
                                        \o (IF doc.assetIndex # NoIndex
                                            THEN get_assets(doc.assetIndex) ELSE <<>>)
                     /\ vidx' = vidx + 1
                     /\ UNCHANGED vpc
    /\ UNCHANGED <<installed_versions, version_json>>

\* line 357: the loop is over and `tasks` goes to the planner
Collect_done ==
    /\ vpc = "collect"
    /\ vidx = Len(installed_versions)
    /\ vpc' = "collected"
    /\ UNCHANGED <<installed_versions, version_json, vidx, collected>>

----------------------------------------------------------------------------
Init ==
    /\ tasks \in TaskLists
    /\ dry_run \in BOOLEAN
    /\ fs \in [Paths -> Contents \cup {Absent}]
    /\ phase = "plan"
    /\ to_download = <<>>
    /\ pc = [i \in Slots |-> "none"]
    /\ attempt = [i \in Slots |-> 0]
    /\ last_exc = [i \in Slots |-> "none"]
    /\ sem = MaxConcurrency
    /\ outcome = [i \in Slots |-> "none"]
    /\ reason = [i \in Slots |-> "none"]
    /\ reports = [i \in Slots |-> 0]
    /\ gets = [i \in Slots |-> 0]
    /\ matched = [i \in Slots |-> FALSE]
    /\ mismatches = [i \in Slots |-> 0]
    /\ raised = FALSE
    /\ runs = 1
    /\ prev = [n |-> 0, ok |-> FALSE]
    /\ RulesIdle
    /\ LibsIdle
    /\ FetchIdle
    /\ CollectIdle


----------------------------------------------------------------------------
(* headless(): lines 357-379, the filter over `tasks` and the early returns *)

Headless_plan ==
    /\ phase = "plan"
    /\ LET todo == Plan(fs, tasks)
       IN  /\ to_download' = todo
           /\ IF todo = <<>> \/ dry_run
              THEN /\ phase' = "done"
                   /\ pc' = [i \in Slots |-> "none"]
              ELSE /\ phase' = "transfer"
                   /\ pc' = [i \in Slots |-> IF i <= Len(todo) THEN "waiting" ELSE "none"]
    /\ attempt' = [i \in Slots |-> 0]
    /\ last_exc' = [i \in Slots |-> "none"]
    /\ sem' = MaxConcurrency
    /\ outcome' = [i \in Slots |-> "none"]
    /\ reason' = [i \in Slots |-> "none"]
    /\ reports' = [i \in Slots |-> 0]
    /\ gets' = [i \in Slots |-> 0]
    /\ matched' = [i \in Slots |-> FALSE]
    /\ mismatches' = [i \in Slots |-> 0]
    /\ UNCHANGED <<tasks, dry_run, fs, raised, runs, prev>>
    /\ UNCHANGED otherVars

----------------------------------------------------------------------------
(* dl(): the ways a coroutine leaves download_file_async_with_retry.        *)
(* `s` is the semaphore value while the coroutine holds its slot; leaving   *)
(* the `async with` block gives the slot back on every path.                *)

\* lines 130-131 and 387: the wrapper returned False, dl prints OK
ReturnFalse(i, s) ==
    /\ outcome' = [outcome EXCEPT ![i] = "already-valid"]
    /\ reports' = [reports EXCEPT ![i] = @ + 1]
    /\ pc' = [pc EXCEPT ![i] = "done"]
    /\ sem' = Release(s)
    /\ UNCHANGED <<attempt, last_exc, reason, gets, matched, mismatches, raised>>

\* lines 133-137 and 387: the wrapper returned True, dl prints Downloaded
ReturnTrue(i, s, f) ==
    /\ outcome' = [outcome EXCEPT ![i] = "downloaded"]
    /\ reports' = [reports EXCEPT ![i] = @ + 1]
    /\ matched' = [matched EXCEPT ![i] = (compute_sha1(f[to_download[i].path]) = to_download[i].sha)]
    /\ pc' = [pc EXCEPT ![i] = "done"]
    /\ sem' = Release(s)
    /\ UNCHANGED <<attempt, last_exc, reason, gets, mismatches, raised>>

\* lines 138-144 and 388-389: an attempt raised e
OnException(i, s, e) ==
    /\ last_exc' = [last_exc EXCEPT ![i] = e]
    /\ attempt' = [attempt EXCEPT ![i] = @ + 1]
    /\ IF MayRetry(attempt[i] + 1)
       THEN /\ pc' = [pc EXCEPT ![i] = "sleep"]
            /\ sem' = s
            /\ UNCHANGED <<outcome, reason, reports, raised>>
       ELSE /\ pc' = [pc EXCEPT ![i] = "done"]
            /\ sem' = Release(s)
            /\ IF DlCatches(e)
               THEN /\ outcome' = [outcome EXCEPT ![i] = "failed"]
                    /\ reason' = [reason EXCEPT ![i] = Reraised(e, last_exc[i])]
                    /\ reports' = [reports EXCEPT ![i] = @ + 1]
                    /\ UNCHANGED raised
               ELSE /\ raised' = TRUE
                    /\ UNCHANGED <<outcome, reason, reports>>
    /\ mismatches' = [mismatches EXCEPT ![i] = IF e = "ValueError" THEN @ + 1 ELSE @]
    /\ UNCHANGED <<gets, matched>>

\* download_file_async, lines 102-111: return False, or call session.get
BeginAttempt(i, s) ==
    LET t == to_download[i]
    IN  IF AlreadyHave(fs, t)
        THEN ReturnFalse(i, s)
        ELSE /\ pc' = [pc EXCEPT ![i] = "get"]
             /\ gets' = [gets EXCEPT ![i] = @ + 1]
             /\ sem' = s
             /\ UNCHANGED <<attempt, last_exc, outcome, reason, reports, matched, mismatches, raised>>

\* line 384 `async with semaphore`, then the first attempt up to its await
Acquire(i) ==
    /\ phase = "transfer"
    /\ pc[i] = "waiting"
    /\ CanAcquire
    /\ BeginAttempt(i, sem - 1)
    /\ UNCHANGED <<tasks, dry_run, fs, phase, to_download, runs, prev>>
    /\ UNCHANGED otherVars

\* lines 111-120 and 128-144: the request fails before anything is written
\* (session.get or response.read on the transport, raise_for_status on the
\* status: an aiohttp.ClientError either way), or the whole body is read and
\* written to `path`.  The ValueError is the SHA1 mismatch of line 119 or 136.
Respond(i) ==
    /\ phase = "transfer"
    /\ pc[i] = "get"
    /\ LET t == to_download[i]
           written == [fs EXCEPT ![t.path] = Remote(t.url)]
       IN  \/ /\ OnException(i, sem, "ClientError")
              /\ fs' = FileAfterClientError(fs, t)
           \/ /\ fs' = written
              /\ IF AttemptVerified(written, t)
                 THEN ReturnTrue(i, sem, written)
                 ELSE OnException(i, sem, "ValueError")
    /\ UNCHANGED <<tasks, dry_run, phase, to_download, runs, prev>>
    /\ UNCHANGED otherVars

\* line 142: asyncio.sleep is over, the while loop starts the next attempt
Wake(i) ==
    /\ phase = "transfer"
    /\ pc[i] = "sleep"
    /\ BeginAttempt(i, sem)
    /\ UNCHANGED <<tasks, dry_run, fs, phase, to_download, runs, prev>>
    /\ UNCHANGED otherVars

\* line 390: asyncio.gather returns once every dl() has returned, and passes
\* on an exception that left one of them
Gather ==
    /\ phase = "transfer"
    /\ \A i \in Active : pc[i] = "done"
    /\ phase' = IF raised THEN "aborted" ELSE "done"
    /\ UNCHANGED <<tasks, dry_run, fs, to_download, pc, attempt, last_exc, sem,
                   outcome, reason, reports, gets, matched, mismatches, raised,
                   runs, prev>>
    /\ UNCHANGED otherVars

\* the pipeline is started again on the same manifests and the same files
AllOk == \A i \in Active : outcome[i] \in {"already-valid", "downloaded"}

Rerun ==
    /\ phase = "done"
    /\ runs < MaxRuns
    /\ runs' = runs + 1
    /\ prev' = [n |-> Len(to_download), ok |-> ~dry_run /\ AllOk]
    /\ phase' = "plan"
    /\ UNCHANGED <<tasks, dry_run, fs, to_download, pc, attempt, last_exc, sem,
                   outcome, reason, reports, gets, matched, mismatches, raised>>
    /\ UNCHANGED otherVars

Next ==
    \/ Headless_plan
    \/ \E i \in Slots : Acquire(i)
    \/ \E i \in Slots : Respond(i)
    \/ \E i \in Slots : Wake(i)
    \/ Gather

Spec == Init /\ [][Next]_vars

Fairness ==
    /\ WF_vars(Headless_plan)
    /\ WF_vars(Gather)
    /\ \A i \in Slots : WF_vars(Acquire(i)) /\ WF_vars(Respond(i)) /\ WF_vars(Wake(i))

FairSpec == Spec /\ Fairness

NextTwice == Next \/ Rerun

SpecTwice == Init /\ [][NextTwice]_vars

----------------------------------------------------------------------------
(* Claims *)

\* the coroutines that hold a slot of the semaphore
InFlight == { i \in Slots : pc[i] \in {"get", "sleep"} }

Terminal == {"already-valid", "downloaded", "failed"}

\* C1: in every reachable state the number of tasks in flight (holding the
\* gate: transferring, or sleeping in backoff) is at most MaxConcurrency,
\* and the semaphore's value is what is left of it.
C1_InFlightBounded ==
    /\ Cardinality(InFlight) <= MaxConcurrency
    /\ phase = "transfer" => sem = MaxConcurrency - Cardinality(InFlight)

\* C1 witness: the gate is full and a task is waiting at it
C1_GateFull ==
    /\ Cardinality(InFlight) = MaxConcurrency
    /\ \E i \in Slots : pc[i] = "waiting"

\* C4: a task makes at most Retries attempts; after a failed attempt it
\* sleeps and tries again while fewer than Retries were made; it is failed
\* only when the Retries-th attempt failed, with the error of that attempt.
C4_AttemptsBounded ==
    \A i \in Slots :
        /\ attempt[i] <= Retries
        /\ gets[i] <= Retries
        /\ pc[i] = "sleep" => attempt[i] \in 1..(Retries - 1)
        /\ pc[i] = "get" => attempt[i] < Retries /\ gets[i] = attempt[i] + 1
        /\ outcome[i] = "failed" =>
              /\ attempt[i] = Retries
              /\ gets[i] = Retries
              /\ reason[i] = last_exc[i]
        /\ (pc[i] = "done" /\ attempt[i] < Retries) => outcome[i] \in {"already-valid", "downloaded"}

\* C4 witness: a task failed on a SHA1 mismatch after an attempt that failed
\* on something else
C4_FailedAfterThree ==
    \E i \in Slots :
        /\ outcome[i] = "failed"
        /\ reason[i] = "ValueError"
        /\ mismatches[i] < Retries

\* C5 (as stated): every Downloaded outcome is given only with the written
\* file's digest found equal to the expected digest.
C5_EveryDownloadMatched ==
    \A i \in Active : outcome[i] = "downloaded" => matched[i]

\* C5 (amended): every Downloaded outcome of a task that has an expected
\* digest is given only with the written file's digest equal to it.
C5_DownloadWithShaMatched ==
    \A i \in Active :
        (outcome[i] = "downloaded" /\ to_download[i].sha # NoSha) => matched[i]

\* C5 witness: a task with an expected digest was downloaded
C5_DownloadedWithSha ==
    \E i \in Active : outcome[i] = "downloaded" /\ to_download[i].sha # NoSha

\* the file at the task's path is absent or has the task's digest
NotCorrupt(f, t) == ~Exists(f, t.path) \/ compute_sha1(f[t.path]) = t.sha

\* C6: when every attempt of a task downloaded content with another digest,
\* the task is failed with the mismatch as its reason and, in the state in
\* which that is reported, no file with another digest is at its path.
C6_NoCorruptFileLeft ==
    [][\A i \in Active :
         (outcome[i] = "none" /\ outcome'[i] = "failed" /\ mismatches'[i] = Retries)
            => (reason'[i] = "ValueError" /\ NotCorrupt(fs', to_download[i]))]_vars

\* tasks of the plan with the same remote url and the same local path as i
SameTarget(i) ==
    { j \in Active : to_download[j].url = to_download[i].url
                     /\ to_download[j].path = to_download[i].path }

RECURSIVE SumGets(_)
SumGets(S) ==
    IF S = {} THEN 0
    ELSE LET j == CHOOSE x \in S : TRUE IN gets[j] + SumGets(S \ {j})

\* C8: when a target (url, path) occurs twice in the task list and its first
\* transfer succeeds, at most one GET is issued for that target in the run.
C8_OneGetPerTarget ==
    \A i \in Active :
        (outcome[i] = "downloaded" /\ attempt[i] = 0 /\ Cardinality(SameTarget(i)) > 1)
            => SumGets(SameTarget(i)) <= 1

\* C9: once a task with expected digest D printed Downloaded, the file at its
\* path has digest D in every later state of the run.
C9_DigestStaysValid ==
    \A i \in Active :
        (outcome[i] = "downloaded" /\ to_download[i].sha # NoSha)
            => (Exists(fs, to_download[i].path)
                /\ compute_sha1(fs[to_download[i].path]) = to_download[i].sha)

\* every planned task has printed exactly one line and has its outcome
AllReported ==
    \A i \in Active : reports[i] = 1 /\ outcome[i] \in Terminal

\* C2: unless it is a dry run, every task of the plan eventually has exactly
\* one terminal outcome and the run has ended, and it stays so: no task is
\* dropped, reported twice or left pending.
C2_AllTasksResolved ==
    ~dry_run => <>[](phase = "done" /\ AllReported)

\* C2 witness: a run of MaxTasks tasks has ended with every kind of outcome
C2_RunEnded ==
    /\ phase = "done"
    /\ Len(to_download) = MaxTasks
    /\ AllReported
    /\ \A o \in Terminal : \E i \in Active : outcome[i] = o

\* C3: no exception leaves a dl() coroutine, and when a task is failed
\* every task of the run still gets its outcome and the run ends normally.
C3_FailureIsolated ==
    /\ [](~raised /\ phase # "aborted")
    /\ (\E i \in Slots : outcome[i] = "failed") ~> (phase = "done" /\ AllReported)

\* C3 witness: a task is failed while another one is still waiting at the gate
C3_FailedWhileOthersPending ==
    \E i, j \in Active : outcome[i] = "failed" /\ pc[j] = "waiting"

\* C7 (as stated): while some task sleeps in backoff, every other unfinished
\* task, a task waiting at the gate included, can take its next step.
C7_SleepNeverBlocks ==
    \A i \in Slots :
        (phase = "transfer" /\ \E j \in Slots \ {i} : pc[j] = "sleep") =>
            /\ pc[i] = "waiting" => ENABLED Acquire(i)
            /\ pc[i] = "get" => ENABLED Respond(i)
            /\ pc[i] = "sleep" => ENABLED Wake(i)

\* C7 (amended): while some task sleeps in backoff, every other task that
\* holds a slot can take its next step, and a task waiting at the gate can
\* start exactly when fewer than MaxConcurrency tasks hold a slot; a sleeping
\* task keeps its slot.
C7_SleepBlocksOnlyTheGate ==
    \A i \in Slots :
        (phase = "transfer" /\ \E j \in Slots \ {i} : pc[j] = "sleep") =>
            /\ pc[i] = "waiting" =>
                  (ENABLED Acquire(i) <=> Cardinality(InFlight) < MaxConcurrency)
            /\ pc[i] = "get" => ENABLED Respond(i)
            /\ pc[i] = "sleep" => ENABLED Wake(i)

\* C7 witness: one task sleeps, another one awaits its response and a third
\* one waits at the gate
C7_SleeperAndOthers ==
    \E i, j, k \in Slots : pc[i] = "sleep" /\ pc[j] = "get" /\ pc[k] = "waiting"

\* no two entries of the list name one local path with different digests
NoPathConflict(ts) ==
    \A a, b \in 1..Len(ts) : ts[a].path = ts[b].path => ts[a].sha = ts[b].sha

----------------------------------------------------------------------------
(* The planner and the start of an attempt *)

\* the planner's predicate, in the words of C11
Retained(f, t) ==
    \/ f[t.path] = Absent
    \/ (f[t.path] # Absent /\ t.sha # NoSha /\ compute_sha1(f[t.path]) # t.sha)

\* a planned entry without the reason the planner prints with it
AsTask(d) == [url |-> d.url, path |-> d.path, sha |-> d.sha]

\* C11: the planner's output is the input list filtered, in order, by: the
\* file is absent, or it is there, a digest is expected and the file's differs
\* (so an absent file is always kept, a file with no expected digest never);
\* planning changes no file.
C11_PlanIsFilter ==
    [][(phase = "plan" /\ phase' # "plan") =>
          /\ Len(to_download') = Len(SelectSeq(tasks, LAMBDA t : Retained(fs, t)))
          /\ \A k \in 1..Len(to_download') :
                AsTask(to_download'[k]) = SelectSeq(tasks, LAMBDA t : Retained(fs, t))[k]
          /\ fs' = fs]_vars

\* C11 witness: the planner kept one task whose file is absent and one whose
\* file has another digest, and dropped a task of the list
C11_PlannedSome ==
    /\ phase = "transfer"
    /\ Len(to_download) < Len(tasks)
    /\ \E a, b \in Active : to_download[a].reason = "missing" /\ to_download[b].reason = "corrupt"

\* task i starts an attempt in this step
StartsAttempt(i) == pc[i] \in {"waiting", "sleep"} /\ pc'[i] # pc[i]

\* C12: when an attempt starts with the file there and either no expected
\* digest or the file's digest equal to it, the task ends already-valid, no
\* GET is issued and no file is written; a GET is issued only when the file
\* is absent or its digest differs from the expected one.
C12_ValidFileNoGet ==
    [][\A i \in Active :
          LET t == to_download[i]
              valid == fs[t.path] # Absent
                       /\ (t.sha = NoSha \/ compute_sha1(fs[t.path]) = t.sha)
          IN  /\ (StartsAttempt(i) /\ valid) =>
                    (outcome'[i] = "already-valid" /\ gets' = gets /\ fs' = fs)
              /\ gets'[i] > gets[i] =>
                    (fs[t.path] = Absent
                     \/ (t.sha # NoSha /\ compute_sha1(fs[t.path]) # t.sha))]_vars

\* C12 witness: a task found its file valid at the start of a later attempt
C12_ValidOnRetry ==
    \E i \in Active : outcome[i] = "already-valid" /\ attempt[i] > 0

\* C19: an attempt that fails on the transport or on the status leaves every
\* file as it was; the target is written only in a step in which the whole
\* body was read.
C19_FailedRequestWritesNothing ==
    [][\A i \in Active :
          (attempt'[i] > attempt[i] /\ last_exc'[i] = "ClientError") => fs' = fs]_vars

\* C19 witness: a request failed while the task's file was there with
\* another digest than the expected one
C19_FailedWithStaleFile ==
    \E i \in Active :
        /\ last_exc[i] = "ClientError"
        /\ pc[i] = "sleep"
        /\ fs[to_download[i].path] # Absent

----------------------------------------------------------------------------
(* parse_rules on every rule list of up to MaxRules rules *)

\* the transfer engine, not started
EngineIdle ==
    /\ tasks = <<>>
    /\ dry_run = FALSE
    /\ fs = [p \in Paths |-> Absent]
    /\ phase = "idle"
    /\ to_download = <<>>
    /\ pc = [i \in Slots |-> "none"]
    /\ attempt = [i \in Slots |-> 0]
    /\ last_exc = [i \in Slots |-> "none"]
    /\ sem = MaxConcurrency
    /\ outcome = [i \in Slots |-> "none"]
    /\ reason = [i \in Slots |-> "none"]
    /\ reports = [i \in Slots |-> 0]
    /\ gets = [i \in Slots |-> 0]
    /\ matched = [i \in Slots |-> FALSE]
    /\ mismatches = [i \in Slots |-> 0]
    /\ raised = FALSE
    /\ runs = 1
    /\ prev = [n |-> 0, ok |-> FALSE]

RulesInit ==
    /\ EngineIdle
    /\ LibsIdle
    /\ FetchIdle
    /\ CollectIdle
    /\ rules \in RuleLists
    /\ rpc = "call"
    /\ ridx = 0
    /\ allowed_os = {}

RulesNext ==
    \/ ParseRules_enter /\ UNCHANGED <<engineVars, libVars, fetchVars, collectVars>>
    \/ ParseRules_rule /\ UNCHANGED <<engineVars, libVars, fetchVars, collectVars>>
    \/ ParseRules_return /\ UNCHANGED <<engineVars, libVars, fetchVars, collectVars>>

RulesSpec == RulesInit /\ [][RulesNext]_vars

\* a rule's implied set in the words of C13: the full set with no platform
\* predicate, the single named platform otherwise
ImpliedAsStated(rule) == IF rule.has_os THEN {rule.name} ELSE ALL_OS

\* the same, except that a disallow rule that pins an OS version implies no
\* platform
ImpliedAmended(rule) ==
    IF ~rule.has_os THEN ALL_OS
    ELSE IF rule.action = "disallow" /\ rule.version THEN {}
    ELSE {rule.name}

\* the left fold of the first n rules from the empty set
RECURSIVE FoldAsStated(_, _)
FoldAsStated(rs, n) ==
    IF n = 0 THEN {}
    ELSE IF rs[n].action = "allow"
         THEN FoldAsStated(rs, n - 1) \cup ImpliedAsStated(rs[n])
         ELSE FoldAsStated(rs, n - 1) \ ImpliedAsStated(rs[n])

RECURSIVE FoldAmended(_, _)
FoldAmended(rs, n) ==
    IF n = 0 THEN {}
    ELSE IF rs[n].action = "allow"
         THEN FoldAmended(rs, n - 1) \cup ImpliedAmended(rs[n])
         ELSE FoldAmended(rs, n - 1) \ ImpliedAmended(rs[n])

AllowAll == [action |-> "allow", has_os |-> FALSE, name |-> <<>>, version |-> FALSE]
DisallowLinux == [action |-> "disallow", has_os |-> TRUE, name |-> Linux, version |-> FALSE]

\* C13 (as stated): evaluate returns the full set for the empty list and
\* otherwise the left fold from the empty set, each rule implying the full
\* set without a platform predicate and its named platform otherwise.
C13_FoldAsStated ==
    rpc = "returned" =>
        allowed_os = IF rules = <<>> THEN ALL_OS ELSE FoldAsStated(rules, Len(rules))

\* C13 (amended): the same, a disallow rule that pins an OS version implying
\* no platform; [allow with no os, disallow os linux] yields {osx, windows}.
C13_FoldWithExemption ==
    rpc = "returned" =>
        /\ allowed_os = IF rules = <<>> THEN ALL_OS ELSE FoldAmended(rules, Len(rules))
        /\ rules = <<AllowAll, DisallowLinux>> => allowed_os = {Osx, Windows}

\* C13 witness: a list with an allow rule that pins a version, evaluated to
\* a set that holds its platform
C13_AllowWithVersionEvaluated ==
    /\ rpc = "returned"
    /\ Len(rules) = MaxRules
    /\ \E k \in 1..Len(rules) :
          /\ rules[k].action = "allow" /\ rules[k].has_os /\ rules[k].version
          /\ rules[k].name \in allowed_os

\* C14: a disallow rule whose predicate pins an OS version leaves the
\* accumulated set as it was, at every position of every list.
C14_DisallowVersionRemovesNothing ==
    [][(rpc = "loop" /\ ridx' = ridx + 1
        /\ rules[ridx + 1].action = "disallow"
        /\ rules[ridx + 1].has_os /\ rules[ridx + 1].version)
           => allowed_os' = allowed_os]_vars

\* C14 witness: such a rule was just processed with its platform in the set
C14_DisallowVersionProcessed ==
    /\ rpc = "loop" /\ ridx > 1
    /\ rules[ridx].action = "disallow" /\ rules[ridx].has_os /\ rules[ridx].version
    /\ rules[ridx].name \in allowed_os

\* C18 (as stated): the returned set is a subset of {osx, linux, windows}.
C18_SubsetOfAllOs ==
    rpc = "returned" => allowed_os \subseteq {Osx, Linux, Windows}

\* the platform names the allow rules of a list carry
AllowedNames(rs) ==
    { rs[k].name : k \in { j \in 1..Len(rs) : rs[j].action = "allow" /\ rs[j].has_os } }

\* C18 (amended): the returned set is a subset of {osx, linux, windows} and
\* the names carried by the list's allow rules.
C18_SubsetOfAllOsAndAllowed ==
    rpc = "returned" =>
        allowed_os \subseteq ({Osx, Linux, Windows} \cup AllowedNames(rules))

\* C18 witness: a list that names another platform in a disallow rule and in
\* an allow rule was evaluated
C18_OtherNameEvaluated ==
    /\ rpc = "returned"
    /\ \E j, k \in 1..Len(rules) :
          /\ rules[j].action = "disallow" /\ rules[j].has_os /\ rules[j].name \notin ALL_OS
          /\ rules[k].action = "allow" /\ rules[k].has_os /\ rules[k].name \notin ALL_OS

----------------------------------------------------------------------------
(* get_libraries on library entries *)

LibInit ==
    /\ EngineIdle
    /\ RulesIdle
    /\ FetchIdle
    /\ CollectIdle
    /\ libs \in LibLists
    /\ lpc = "loop"
    /\ lidx = 0
    /\ libraries = <<>>

LibNext ==
    \/ GetLibraries_lib /\ UNCHANGED <<engineVars, rulesVars, fetchVars, collectVars>>
    \/ GetLibraries_return /\ UNCHANGED <<engineVars, rulesVars, fetchVars, collectVars>>

LibSpec == LibInit /\ [][LibNext]_vars

\* the platform set of a rule list, as C13 (amended) gives it
Evaluate(rs) == IF rs = <<>> THEN ALL_OS ELSE FoldAmended(rs, Len(rs))

\* the entries of `libraries` that come from entry k
EmittedFor(k) == { libraries[j] : j \in { i \in 1..Len(libraries) : libraries[i].lib = k } }

\* C15: for every entry with downloads the primary artifact is emitted when
\* present, whatever the rules, and a classifier is emitted iff it is
\* natives-<platform> for a platform of the set evaluated from the rules;
\* nothing else is emitted, and nothing twice.  Rules [allow os linux] with
\* natives-linux and natives-windows give the artifact and natives-linux.
C15_LibraryEmission ==
    lpc = "returned" =>
        /\ \A k \in 1..Len(libs) :
              LET lib == libs[k]
                  cls == { lib.classifiers[j] : j \in 1..Len(lib.classifiers) }
              IN  IF ~lib.has_downloads THEN EmittedFor(k) = {}
                  ELSE /\ ([lib |-> k, kind |-> "artifact", name |-> <<>>] \in EmittedFor(k))
                             <=> lib.has_artifact
                       /\ \A c \in cls :
                             ([lib |-> k, kind |-> "classifier", name |-> c] \in EmittedFor(k))
                                <=> (\E p \in Evaluate(lib.rules) : c = NativesPrefix \o p)
                       /\ \A e \in EmittedFor(k) : e.kind = "classifier" => e.name \in cls
        /\ Cardinality({ libraries[j] : j \in 1..Len(libraries) }) = Len(libraries)
        /\ libs = <<ScenarioLib>> =>
              libraries = << [lib |-> 1, kind |-> "artifact", name |-> <<>>],
                             [lib |-> 1, kind |-> "classifier", name |-> NativesPrefix \o Linux] >>

\* C15 witness: an entry whose rules leave out a platform it has natives
\* for was resolved to its artifact and the natives of an allowed platform
C15_NativesFiltered ==
    /\ lpc = "returned"
    /\ Len(libs) = 1
    /\ Len(libs[1].rules) = MaxLibRules
    /\ Len(libraries) = 2
    /\ Len(libs[1].classifiers) = 4
    /\ libraries[1].kind = "artifact"

----------------------------------------------------------------------------
(* fetch_json on one cache location *)

FetchInit ==
    /\ EngineIdle
    /\ RulesIdle
    /\ LibsIdle
    /\ CollectIdle
    /\ cache \in [CacheFiles -> DocTexts \cup {Absent}]
    /\ filename = "assets/1.json"
    /\ fstart = Absent
    /\ fpc = "idle"
    /\ fattempt = 0
    /\ fgets = 0
    /\ fwrote = FALSE
    /\ fresult = NoJson
    /\ fcalls = 0

FetchNext ==
    \/ FetchJson_enter /\ UNCHANGED <<engineVars, rulesVars, libVars, collectVars>>
    \/ FetchJson_load /\ UNCHANGED <<engineVars, rulesVars, libVars, collectVars>>
    \/ FetchJson_attempt /\ UNCHANGED <<engineVars, rulesVars, libVars, collectVars>>

FetchSpec == FetchInit /\ [][FetchNext]_vars

\* C16: a call that finds a document at the cache location returns that
\* document, loaded from the location, with no GET and no write; a GET is
\* issued only by a call that found the location empty when it started.
C16_CacheHitNoNetwork ==
    /\ (fcalls > 0 /\ fstart \in DocTexts) =>
          /\ fgets = 0
          /\ ~fwrote
          /\ cache[filename] = fstart
          /\ fpc \in {"load", "returned"}
          /\ fpc = "returned" => fresult = ParseJson(fstart)
    /\ fgets > 0 => fstart = Absent

\* C16 witness: a second call returned the document that the first call
\* had fetched and stored
C16_SecondCallServedFromCache ==
    /\ fcalls > 1
    /\ fwrote = FALSE
    /\ fpc = "returned"
    /\ fstart \in DocTexts
    /\ fresult = ParseJson(fstart)
    /\ fgets = 0

\* C20: a call that started from the network and ended in failure leaves
\* no file at the cache location.
C20_FailedFetchLeavesNoFile ==
    (fpc = "raised" /\ fstart = Absent) => cache[filename] = Absent

----------------------------------------------------------------------------
(* the task collection of headless on installed versions *)

CollectInit ==
    /\ EngineIdle
    /\ RulesIdle
    /\ LibsIdle
    /\ FetchIdle
    /\ installed_versions \in VersionLists
    /\ version_json \in [1..Len(installed_versions) -> VersionDocs]
    /\ vpc = "collect"
    /\ vidx = 0
    /\ collected = <<>>

CollectNext ==
    \/ Collect_version /\ UNCHANGED <<engineVars, rulesVars, libVars, fetchVars>>
    \/ Collect_done /\ UNCHANGED <<engineVars, rulesVars, libVars, fetchVars>>

CollectSpec == CollectInit /\ [][CollectNext]_vars

\* C17: no two entries of the resolved task list have the same local path,
\* whatever the version documents and asset indices are.
C17_DistinctLocalPaths ==
    vpc = "collected" =>
        \A i, j \in 1..Len(collected) : i # j => collected[i].path # collected[j].path

====
